---- MODULE Spec2Model ----
(***************************************************************************)
(* The tw() rewrite engine of the Vite plugin (packages/vite-plugin/src):  *)
(* transformCode, extractStringLiteral, extractObjectExpression,           *)
(* buildClassString and the plugin's transform handler.                    *)
(*                                                                         *)
(* Source text is a sequence of symbols.  A symbol stands for one          *)
(* character of the text (a quote, a bracket, a blank) or for one          *)
(* indivisible run of identifier characters ("tw", "md", "flex");          *)
(* offsets count symbols.  The parser below reads such a text the way      *)
(* @babel/parser reads the corresponding JavaScript, for the expression    *)
(* grammar the inputs of this model are written in.                        *)
(***************************************************************************)
EXTENDS Integers, Sequences, FiniteSets, TLC

(***************************************************************************)
(* Symbols                                                                 *)
(***************************************************************************)
DQ == "\""
SQ == "'"
\* The backquote that delimits a template literal.
BT == "<bq>"
BS == "\\"
NL == "\n"
SP == " "
INTERP == "${"
SPREAD == "..."
EOF == "<eof>"

Whitespace == {SP, NL}

Punctuation ==
    {"(", ")", ",", "{", "}", ":", ";", ".", "+", "[", "]",
     SPREAD, INTERP, DQ, SQ, BT, BS, SP, NL, EOF}

\* A symbol that starts with a digit followed by letters: no JavaScript
\* token (Babel: "Identifier directly after number").
DigitLed == {"2xl"}

IsWord(c) == c \notin Punctuation

At(t, i) == IF i >= 1 /\ i <= Len(t) THEN t[i] ELSE EOF

RECURSIVE SkipWs(_, _)
SkipWs(t, i) ==
    IF i <= Len(t) /\ t[i] \in Whitespace THEN SkipWs(t, i + 1) ELSE i

RECURSIVE WordEnd(_, _)
WordEnd(t, i) ==
    IF i <= Len(t) /\ IsWord(t[i]) THEN WordEnd(t, i + 1) ELSE i

(***************************************************************************)
(* Syntax tree nodes.  start and end are 0-based offsets into the text,    *)
(* end exclusive, as Babel's node.start and node.end.                      *)
(*   Identifier        value = name                                        *)
(*   StringLiteral     value = the cooked string                           *)
(*   TemplateLiteral   quasis = raw chunks, kids = expressions             *)
(*   CallExpression    kids = <<callee>> \o arguments                      *)
(*   MemberExpression  kids = <<object, property>>                         *)
(*   BinaryExpression  kids = <<left, right>>                              *)
(*   SpreadElement     kids = <<argument>>                                 *)
(*   ObjectExpression  kids = properties                                   *)
(*   ObjectProperty    kids = <<key, value>>, computed                     *)
(*   ObjectMethod      kids = <<key>>                                      *)
(*   File              kids = the statements' expressions                  *)
(***************************************************************************)
Node(type, start, end, value, kids, quasis, computed) ==
    [type |-> type, start |-> start, end |-> end, value |-> value,
     kids |-> kids, quasis |-> quasis, computed |-> computed]

NoNode == Node("None", 0, 0, <<>>, <<>>, <<>>, FALSE)

Leaf(type, start, end, value) == Node(type, start, end, value, <<>>, <<>>, FALSE)

Tree(type, start, end, kids) == Node(type, start, end, <<>>, kids, <<>>, FALSE)

\* A parse step's outcome: the node read and the index after it, or the
\* index at which the text stopped being JavaScript.
Ok(node, pos) == [ok |-> TRUE, node |-> node, nodes |-> <<>>, pos |-> pos]

OkList(nodes, pos) == [ok |-> TRUE, node |-> NoNode, nodes |-> nodes, pos |-> pos]

Fail(pos) == [ok |-> FALSE, node |-> NoNode, nodes |-> <<>>, pos |-> pos]

\* The character an escape sequence \x stands for in a quoted string.
Cooked(x) ==
    IF x = "n" THEN <<NL>>
    ELSE IF x = NL THEN <<>>
    ELSE <<x>>

(***************************************************************************)
(* The parser: one recursive operator with one rule per syntactic form.    *)
(* Parser(rule, t, i, x) reads the form from index i of text t; x is what  *)
(* the rule has read so far.  The operators named after the rules apply    *)
(* it.                                                                     *)
(***************************************************************************)
RECURSIVE Parser(_, _, _, _)

\* The rest of a quoted string opened by q at offset start.
ScanString(t, j, q, start, acc) ==
    Parser("String", t, j, [q |-> q, start |-> start, acc |-> acc])

\* The rest of a template literal opened at offset start.
ScanTemplate(t, j, start, raw, quasis, exprs) ==
    Parser("Template", t, j,
           [start |-> start, raw |-> raw, quasis |-> quasis, exprs |-> exprs])

ParsePrimary(t, i) == Parser("Primary", t, i, <<>>)

\* The calls and member accesses that follow the expression r.
ParsePostfix(t, r) == Parser("Postfix", t, r.pos, r)

ParseUnary(t, i) == Parser("Unary", t, i, <<>>)

\* The + operands that follow the expression l.
ParseBinary(t, l) == Parser("Binary", t, l.pos, l)

ParseExpr(t, i) == Parser("Expr", t, i, <<>>)

\* An element of an argument list or of an object literal: ...expr.
ParseSpread(t, i) == Parser("Spread", t, i, <<>>)

\* i is at the first symbol after "(" (blanks skipped).
ParseArgs(t, i, acc) == Parser("Args", t, i, acc)

\* One member of an object literal: ...expr, [expr]: expr, key: expr,
\* key() {} or the shorthand key.
ParseMember(t, i) == Parser("Member", t, i, <<>>)

\* i is at the first symbol after "{" (blanks skipped).
ParseProps(t, i, acc) == Parser("Props", t, i, acc)

\* Expression statements separated by semicolons, to the end of the text.
ParseStatements(t, i, acc) == Parser("Statements", t, i, acc)

\* An identifier, or the failure a digit-led run is.
ParseWord(t, i) ==
    LET e == WordEnd(t, i)
    IN  IF e = i \/ t[i] \in DigitLed THEN Fail(i)
        ELSE Ok(Leaf("Identifier", i - 1, e - 1, SubSeq(t, i, e - 1)), e)

\* The key of an object member: an identifier name or a string.
ParseKey(t, i) ==
    IF At(t, i) = DQ \/ At(t, i) = SQ THEN ScanString(t, i + 1, At(t, i), i - 1, <<>>)
    ELSE ParseWord(t, i)

\* After an element: a comma (then more, or the closing bracket) or the
\* closing bracket.
AfterElement(t, pos, close) ==
    LET k == SkipWs(t, pos)
        n == SkipWs(t, k + 1)
    IN  IF At(t, k) = close THEN [more |-> FALSE, ok |-> TRUE, pos |-> k + 1]
        ELSE IF At(t, k) = ","
             THEN IF At(t, n) = close
                  THEN [more |-> FALSE, ok |-> TRUE, pos |-> n + 1]
                  ELSE [more |-> TRUE, ok |-> TRUE, pos |-> n]
        ELSE [more |-> FALSE, ok |-> FALSE, pos |-> k]

Parser(rule, t, i, x) ==
    CASE rule = "String" ->
        IF i > Len(t) \/ t[i] = NL THEN Fail(i)
        ELSE IF t[i] = x.q THEN Ok(Leaf("StringLiteral", x.start, i, x.acc), i + 1)
        ELSE IF t[i] = BS
             THEN IF i + 1 > Len(t) THEN Fail(i + 1)
                  ELSE ScanString(t, i + 2, x.q, x.start, x.acc \o Cooked(t[i + 1]))
        ELSE ScanString(t, i + 1, x.q, x.start, Append(x.acc, t[i]))
      [] rule = "Template" ->
        IF i > Len(t) THEN Fail(i)
        ELSE IF t[i] = BT
             THEN Ok(Node("TemplateLiteral", x.start, i, <<>>, x.exprs,
                          Append(x.quasis, x.raw), FALSE), i + 1)
        ELSE IF t[i] = INTERP
             THEN LET e == ParseExpr(t, SkipWs(t, i + 1))
                      k == SkipWs(t, e.pos)
                  IN  IF ~e.ok THEN e
                      ELSE IF At(t, k) # "}" THEN Fail(k)
                      ELSE ScanTemplate(t, k + 1, x.start, <<>>,
                                        Append(x.quasis, x.raw), Append(x.exprs, e.node))
        ELSE IF t[i] = BS
             THEN IF i + 1 > Len(t) THEN Fail(i + 1)
                  ELSE ScanTemplate(t, i + 2, x.start, x.raw \o <<BS, t[i + 1]>>,
                                    x.quasis, x.exprs)
        ELSE ScanTemplate(t, i + 1, x.start, Append(x.raw, t[i]), x.quasis, x.exprs)
      [] rule = "Primary" ->
        IF At(t, i) = DQ \/ At(t, i) = SQ
        THEN ScanString(t, i + 1, At(t, i), i - 1, <<>>)
        ELSE IF At(t, i) = BT THEN ScanTemplate(t, i + 1, i - 1, <<>>, <<>>, <<>>)
        ELSE IF At(t, i) = "{"
             THEN LET p == ParseProps(t, SkipWs(t, i + 1), <<>>)
                  IN  IF ~p.ok THEN p
                      ELSE Ok(Tree("ObjectExpression", i - 1, p.pos - 1, p.nodes),
                              p.pos)
        ELSE ParseWord(t, i)
      [] rule = "Postfix" ->
        LET k == SkipWs(t, i)
            a == ParseArgs(t, SkipWs(t, k + 1), <<>>)
            m == ParseWord(t, SkipWs(t, k + 1))
        IN  IF At(t, k) = "("
            THEN IF ~a.ok THEN a
                 ELSE ParsePostfix(t,
                        Ok(Tree("CallExpression", x.node.start, a.pos - 1,
                                <<x.node>> \o a.nodes), a.pos))
            ELSE IF At(t, k) = "."
            THEN IF ~m.ok THEN m
                 ELSE ParsePostfix(t,
                        Ok(Tree("MemberExpression", x.node.start, m.node.end,
                                <<x.node, m.node>>), m.pos))
            ELSE x
      [] rule = "Unary" ->
        LET p == ParsePrimary(t, i)
        IN  IF p.ok THEN ParsePostfix(t, p) ELSE p
      [] rule = "Binary" ->
        LET k == SkipWs(t, i)
            r == ParseUnary(t, SkipWs(t, k + 1))
        IN  IF At(t, k) = "+"
            THEN IF ~r.ok THEN r
                 ELSE ParseBinary(t,
                        Ok(Tree("BinaryExpression", x.node.start, r.node.end,
                                <<x.node, r.node>>), r.pos))
            ELSE x
      [] rule = "Expr" ->
        LET p == ParseUnary(t, i)
        IN  IF p.ok THEN ParseBinary(t, p) ELSE p
      [] rule = "Spread" ->
        LET e == ParseExpr(t, SkipWs(t, i + 1))
        IN  IF ~e.ok THEN e
            ELSE Ok(Tree("SpreadElement", i - 1, e.node.end, <<e.node>>), e.pos)
      [] rule = "Args" ->
        IF At(t, i) = ")" /\ x = <<>> THEN OkList(x, i + 1)
        ELSE LET e == IF At(t, i) = SPREAD THEN ParseSpread(t, i)
                      ELSE ParseExpr(t, i)
                 n == AfterElement(t, e.pos, ")")
             IN  IF ~e.ok THEN e
                 ELSE IF ~n.ok THEN Fail(n.pos)
                 ELSE IF n.more THEN ParseArgs(t, n.pos, Append(x, e.node))
                 ELSE OkList(Append(x, e.node), n.pos)
      [] rule = "Member" ->
        IF At(t, i) = SPREAD THEN ParseSpread(t, i)
        ELSE IF At(t, i) = "["
        THEN LET k == ParseExpr(t, SkipWs(t, i + 1))
                 c == SkipWs(t, k.pos)
                 d == SkipWs(t, c + 1)
                 v == ParseExpr(t, SkipWs(t, d + 1))
             IN  IF ~k.ok THEN k
                 ELSE IF At(t, c) # "]" THEN Fail(c)
                 ELSE IF At(t, d) # ":" THEN Fail(d)
                 ELSE IF ~v.ok THEN v
                 ELSE Ok(Node("ObjectProperty", i - 1, v.node.end, <<>>,
                              <<k.node, v.node>>, <<>>, TRUE), v.pos)
        ELSE LET k == ParseKey(t, i)
                 c == SkipWs(t, k.pos)
                 v == ParseExpr(t, SkipWs(t, c + 1))
                 b == SkipWs(t, c + 1)
                 o == SkipWs(t, b + 1)
                 e == SkipWs(t, o + 1)
             IN  IF ~k.ok THEN k
                 ELSE IF At(t, c) = ":"
                      THEN IF ~v.ok THEN v
                           ELSE Ok(Tree("ObjectProperty", k.node.start, v.node.end,
                                        <<k.node, v.node>>), v.pos)
                 ELSE IF At(t, c) = "("
                      THEN IF At(t, b) = ")" /\ At(t, o) = "{" /\ At(t, e) = "}"
                           THEN Ok(Tree("ObjectMethod", k.node.start, e, <<k.node>>),
                                   e + 1)
                           ELSE Fail(b)
                 ELSE IF k.node.type = "Identifier"
                      THEN Ok(Tree("ObjectProperty", k.node.start, k.node.end,
                                   <<k.node, k.node>>), k.pos)
                 ELSE Fail(c)
      [] rule = "Props" ->
        IF At(t, i) = "}" /\ x = <<>> THEN OkList(x, i + 1)
        ELSE LET e == ParseMember(t, i)
                 n == AfterElement(t, e.pos, "}")
             IN  IF ~e.ok THEN e
                 ELSE IF ~n.ok THEN Fail(n.pos)
                 ELSE IF n.more THEN ParseProps(t, n.pos, Append(x, e.node))
                 ELSE OkList(Append(x, e.node), n.pos)
      [] rule = "Statements" ->
        LET k == SkipWs(t, i)
            e == ParseExpr(t, k)
            n == SkipWs(t, e.pos)
        IN  IF k > Len(t) THEN OkList(x, k)
            ELSE IF t[k] = ";" THEN ParseStatements(t, k + 1, x)
            ELSE IF t[k] = "{" THEN Fail(k)
            ELSE IF ~e.ok THEN e
            ELSE IF n <= Len(t) /\ t[n] # ";" THEN Fail(n)
            ELSE ParseStatements(t, n, Append(x, e.node))

\* parse(code, { sourceType: "module", plugins: [...] }): the File node, or
\* the SyntaxError Babel throws (ok = FALSE, pos = where).
parse(t) ==
    LET p == ParseStatements(t, 1, <<>>)
    IN  IF p.ok THEN Ok(Tree("File", 0, Len(t), p.nodes), p.pos)
        ELSE Fail(p.pos - 1)

(***************************************************************************)
(* Strings of the program under transformation are sequences of symbols.   *)
(* The helpers below are String.prototype.trim, split(/\s+/) and           *)
(* Array.prototype.join as buildClassString uses them.                     *)
(***************************************************************************)
RECURSIVE TrimStart(_)
TrimStart(str) ==
    IF str # <<>> /\ Head(str) \in Whitespace THEN TrimStart(Tail(str)) ELSE str

RECURSIVE TrimEnd(_)
TrimEnd(str) ==
    IF str # <<>> /\ str[Len(str)] \in Whitespace
    THEN TrimEnd(SubSeq(str, 1, Len(str) - 1))
    ELSE str

trim(str) == TrimEnd(TrimStart(str))

\* str.split(/\s+/): the pieces between maximal runs of whitespace; a
\* leading or trailing run leaves an empty piece, "" splits into [""].
RECURSIVE SplitFrom(_, _, _, _)
SplitFrom(str, i, cur, acc) ==
    IF i > Len(str) THEN Append(acc, cur)
    ELSE IF str[i] \in Whitespace
         THEN SplitFrom(str, SkipWs(str, i), <<>>, Append(acc, cur))
    ELSE SplitFrom(str, i + 1, Append(cur, str[i]), acc)

split(str) == SplitFrom(str, 1, <<>>, <<>>)

RECURSIVE join(_, _)
join(parts, sep) ==
    IF parts = <<>> THEN <<>>
    ELSE IF Len(parts) = 1 THEN parts[1]
    ELSE parts[1] \o sep \o join(Tail(parts), sep)

\* A value of type string | null.
Null == [null |-> TRUE, value |-> <<>>]

Str(v) == [null |-> FALSE, value |-> v]

(***************************************************************************)
(* extractStringLiteral                                                    *)
(***************************************************************************)
\* extractStringLiteral, were a template literal accepted whatever it
\* interpolates.
extractStringLiteral_AnyTemplate(node) ==
    IF node.type = "None" THEN Null
    ELSE IF node.type = "StringLiteral" THEN Str(node.value)
    ELSE IF node.type = "TemplateLiteral" THEN Str(node.quasis[1])
    ELSE Null

extractStringLiteral(node) ==
    IF node.type = "None" THEN Null
    ELSE IF node.type = "StringLiteral" THEN Str(node.value)
    ELSE IF node.type = "TemplateLiteral"
              /\ Len(node.kids) = 0 /\ Len(node.quasis) = 1
         THEN Str(node.quasis[1])
    ELSE Null

(***************************************************************************)
(* A Record<string, string>: its own properties in insertion order, as a   *)
(* sequence of [key, value].  Assigning to a key the object already has    *)
(* changes the value and keeps the key's place (identifier names are       *)
(* never array indices, which JavaScript would order first).               *)
(***************************************************************************)
HasKey(obj, key) == \E i \in 1..Len(obj) : obj[i].key = key

\* SetKey, were a key that is assigned again moved to the end.
SetKey_Reinserted(obj, key, value) ==
    Append(SelectSeq(obj, LAMBDA e : e.key # key), [key |-> key, value |-> value])

SetKey(obj, key, value) ==
    IF HasKey(obj, key)
    THEN [i \in 1..Len(obj) |->
            IF obj[i].key = key THEN [key |-> key, value |-> value] ELSE obj[i]]
    ELSE Append(obj, [key |-> key, value |-> value])

(***************************************************************************)
(* extractObjectExpression                                                 *)
(***************************************************************************)
RECURSIVE ExtractProps(_, _, _)
ExtractProps(props, i, result) ==
    IF i > Len(props) THEN result
    ELSE LET prop == props[i]
         IN  IF prop.type # "ObjectProperty" THEN ExtractProps(props, i + 1, result)
             ELSE IF prop.kids[1].type # "Identifier"
                  THEN ExtractProps(props, i + 1, result)
             ELSE LET value == extractStringLiteral(prop.kids[2])
                  IN  IF ~value.null
                      THEN ExtractProps(props, i + 1,
                                        SetKey(result, prop.kids[1].value, value.value))
                      ELSE ExtractProps(props, i + 1, result)

extractObjectExpression(node) ==
    IF node.type = "None" \/ node.type # "ObjectExpression" THEN <<>>
    ELSE ExtractProps(node.kids, 1, <<>>)

(***************************************************************************)
(* buildClassString.  Besides the string it returns, the function writes   *)
(* to the console, and it is handed the plugin's breakpoints array itself, *)
(* which it only reads (includes, join).  The result carries the string,   *)
(* the console output and the array as the call leaves it.                 *)
(***************************************************************************)
\* includes, were every breakpoint taken for a known one.
includes_Everything(list, x) == TRUE

includes(list, x) == \E i \in 1..Len(list) : list[i] = x

UnknownBreakpoint(breakpoint, breakpoints) ==
    [level |-> "warn", text |-> "[tw-classname] Unknown breakpoint. Valid breakpoints:",
     subject |-> breakpoint, detail |-> join(breakpoints, <<",", SP>>)]

\* Prefixed, were only the first class given the prefix.
Prefixed_FirstClassOnly(breakpoint, classes) ==
    breakpoint \o <<":">> \o join(split(trim(classes)), <<SP>>)

Prefixed(breakpoint, classes) ==
    LET tokens == split(trim(classes))
    IN  join([i \in 1..Len(tokens) |-> breakpoint \o <<":">> \o tokens[i]], <<SP>>)

\* BuildParts, were an entry with a blank value skipped before its
\* breakpoint is looked up.
RECURSIVE BuildParts_EmptinessFirst(_, _, _, _, _)
BuildParts_EmptinessFirst(entries, i, breakpoints, parts, out) ==
    IF i > Len(entries) THEN [parts |-> parts, console |-> out]
    ELSE LET breakpoint == entries[i].key
             classes == entries[i].value
         IN  IF trim(classes) = <<>>
             THEN BuildParts_EmptinessFirst(entries, i + 1, breakpoints, parts, out)
             ELSE IF ~includes(breakpoints, breakpoint)
             THEN BuildParts_EmptinessFirst(entries, i + 1, breakpoints, parts,
                             Append(out, UnknownBreakpoint(breakpoint, breakpoints)))
             ELSE BuildParts_EmptinessFirst(entries, i + 1, breakpoints,
                             Append(parts, Prefixed(breakpoint, classes)), out)

RECURSIVE BuildParts(_, _, _, _, _)
BuildParts(entries, i, breakpoints, parts, out) ==
    IF i > Len(entries) THEN [parts |-> parts, console |-> out]
    ELSE LET breakpoint == entries[i].key
             classes == entries[i].value
         IN  IF ~includes(breakpoints, breakpoint)
             THEN BuildParts(entries, i + 1, breakpoints, parts,
                             Append(out, UnknownBreakpoint(breakpoint, breakpoints)))
             ELSE IF trim(classes) = <<>>
             THEN BuildParts(entries, i + 1, breakpoints, parts, out)
             ELSE BuildParts(entries, i + 1, breakpoints,
                             Append(parts, Prefixed(breakpoint, classes)), out)

\* buildClassString, were the entries taken in the order of the breakpoints
\* array, the unknown ones last.
RECURSIVE InBreakpointOrder(_, _, _)
InBreakpointOrder(entries, breakpoints, i) ==
    IF i > Len(breakpoints)
    THEN SelectSeq(entries, LAMBDA e : ~includes(breakpoints, e.key))
    ELSE SelectSeq(entries, LAMBDA e : e.key = breakpoints[i])
            \o InBreakpointOrder(entries, breakpoints, i + 1)

buildClassString_InBreakpointOrder(baseClasses, responsiveObj, breakpoints) ==
    LET b == BuildParts(InBreakpointOrder(responsiveObj, breakpoints, 1), 1,
                        breakpoints, <<trim(baseClasses)>>, <<>>)
    IN  [result |-> join(b.parts, <<SP>>), console |-> b.console,
         breakpoints |-> breakpoints]

\* buildClassString, were the base classes not trimmed.
buildClassString_Untrimmed(baseClasses, responsiveObj, breakpoints) ==
    LET b == BuildParts(responsiveObj, 1, breakpoints, <<baseClasses>>, <<>>)
    IN  [result |-> join(b.parts, <<SP>>), console |-> b.console,
         breakpoints |-> breakpoints]

\* buildClassString, were a breakpoint it does not know added to the array
\* once it has been reported.
RECURSIVE Learnt(_, _, _)
Learnt(entries, i, breakpoints) ==
    IF i > Len(entries) THEN breakpoints
    ELSE IF includes(breakpoints, entries[i].key)
         THEN Learnt(entries, i + 1, breakpoints)
    ELSE Learnt(entries, i + 1, Append(breakpoints, entries[i].key))

buildClassString_LearnsBreakpoints(baseClasses, responsiveObj, breakpoints) ==
    LET b == BuildParts(responsiveObj, 1, breakpoints, <<trim(baseClasses)>>, <<>>)
    IN  [result |-> join(b.parts, <<SP>>), console |-> b.console,
         breakpoints |-> Learnt(responsiveObj, 1, breakpoints)]

buildClassString(baseClasses, responsiveObj, breakpoints) ==
    LET b == BuildParts(responsiveObj, 1, breakpoints, <<trim(baseClasses)>>, <<>>)
    IN  [result |-> join(b.parts, <<SP>>), console |-> b.console,
         breakpoints |-> breakpoints]

(***************************************************************************)
(* MagicString: the original text and the edits made to it, each           *)
(* [start, end, content] over a range of the original.                     *)
(***************************************************************************)
NewMagicString(text) == [original |-> text, edits |-> {}]

\* overwrite(start, end, content) throws when a boundary of the range lies
\* strictly inside a chunk that was already edited ("Cannot split a chunk
\* that has already been edited") and for an empty range.
CanOverwrite(ms, start, end) ==
    /\ start < end
    /\ \A e \in ms.edits :
          /\ ~(e.start < start /\ start < e.end)
          /\ ~(e.start < end /\ end < e.end)

\* Overwrite, were the last character of the range left in place.
Overwrite_ShortOfEnd(ms, start, end, content) ==
    [ms EXCEPT !.edits =
        {e \in ms.edits : ~(start <= e.start /\ e.end <= end)}
          \cup {[start |-> start, end |-> end - 1, content |-> content]}]

Overwrite(ms, start, end, content) ==
    [ms EXCEPT !.edits =
        {e \in ms.edits : ~(start <= e.start /\ e.end <= end)}
          \cup {[start |-> start, end |-> end, content |-> content]}]

EditAt(ms, i) == CHOOSE e \in ms.edits : e.start = i

RECURSIVE ToStringFrom(_, _)
ToStringFrom(ms, i) ==
    IF i >= Len(ms.original) THEN <<>>
    ELSE IF \E e \in ms.edits : e.start = i
         THEN EditAt(ms, i).content \o ToStringFrom(ms, EditAt(ms, i).end)
    ELSE <<ms.original[i + 1]>> \o ToStringFrom(ms, i + 1)

toString(ms) == ToStringFrom(ms, 0)

\* generateMap({ hires: true, ... }).mappings: one segment <<generated
\* offset, original offset>> per unedited character and one per edit.
RECURSIVE MappingsFrom(_, _, _)
MappingsFrom(ms, i, g) ==
    IF i >= Len(ms.original) THEN <<>>
    ELSE IF \E e \in ms.edits : e.start = i
         THEN <<<<g, i>>>> \o MappingsFrom(ms, EditAt(ms, i).end,
                                           g + Len(EditAt(ms, i).content))
    ELSE <<<<g, i>>>> \o MappingsFrom(ms, i + 1, g + 1)

generateMap(ms, source) ==
    [file |-> source, sources |-> <<source>>, sourcesContent |-> <<ms.original>>,
     mappings |-> MappingsFrom(ms, 0, 0)]

(***************************************************************************)
(* traverse(ast, { CallExpression }): the call expressions in the order    *)
(* the visitor enters them, parents before children, left to right.        *)
(***************************************************************************)
RECURSIVE CallPaths(_)
RECURSIVE CallPathsOfAll(_)
CallPaths(node) ==
    (IF node.type = "CallExpression" THEN <<node>> ELSE <<>>)
        \o CallPathsOfAll(node.kids)

CallPathsOfAll(nodes) ==
    IF nodes = <<>> THEN <<>>
    ELSE CallPaths(Head(nodes)) \o CallPathsOfAll(Tail(nodes))

(***************************************************************************)
(* The plugin and its host.                                                *)
(***************************************************************************)
\* DEFAULT_BREAKPOINTS
DEFAULT_BREAKPOINTS == <<<<"sm">>, <<"md">>, <<"lg">>, <<"xl">>, <<"2xl">>>>

\* options.breakpoints as a user may configure them: the names of the
\* default list that the inputs use, in another order.
CustomBreakpoints == <<<<"lg">>, <<"md">>>>

BreakpointLists == {DEFAULT_BREAKPOINTS, CustomBreakpoints}

\* Module ids the host hands to the handler, and createFilter(
\* options.include || /\.[jt]sx?$/, options.exclude || /node_modules/).
AppId == "src/App.tsx"

VendorId == "node_modules/pkg/index.js"

Ids == {AppId, VendorId}

\* The id of another module of the same application.
OtherId == "src/Other.tsx"

\* filter, were no id rejected.
filter_Everything(moduleId) == TRUE

filter(moduleId) == moduleId \in {AppId, OtherId}

(***************************************************************************)
(* Source texts handed to the plugin.                                      *)
(***************************************************************************)
\* The most members an object literal of an input has.
MaxProps == 2

\* The most statements a generated multi-statement input has.
MaxStmts == 2

\* The most times the host invokes the handler in one behaviour.
MaxRuns == 3

Quoted(q, str) == <<q>> \o str \o <<q>>

CallText(callee, args) == callee \o <<"(">> \o join(args, <<",", SP>>) \o <<")">>

ObjectText(members) ==
    IF members = <<>> THEN <<"{", "}">>
    ELSE <<"{", SP>> \o join(members, <<",", SP>>) \o <<SP, "}">>

MemberText(key, value) == key \o <<":", SP>> \o value

SeqsUpTo(S, n) == UNION {[1..k -> S] : k \in 0..n}

TW == <<"tw">>

\* First arguments: static strings in every accepted form, and the forms
\* that are not static strings.
StaticBases ==
    { Quoted(DQ, <<"a">>),
      Quoted(DQ, <<SP, "a", SP, SP, "b", SP>>) }

OtherStaticBases ==
    { Quoted(SQ, <<"a">>),
      Quoted(BT, <<"a", NL>>),
      Quoted(DQ, <<>>) }

DynamicBases ==
    { <<"v">>,
      Quoted(BT, <<"a", INTERP, "v", "}">>),
      Quoted(DQ, <<"a">>) \o <<SP, "+", SP>> \o Quoted(DQ, <<"b">>),
      <<SPREAD, "v">>,
      CallText(<<"f">>, <<>>),
      CallText(TW, <<Quoted(DQ, <<"b">>)>>),
      CallText(TW, <<>>) }

\* Members of the second argument's object literal.
Members ==
    { MemberText(<<"md">>, Quoted(DQ, <<"a">>)),
      MemberText(<<"lg">>, Quoted(DQ, <<SP, "b", SP, SP, "c">>)),
      MemberText(<<"md">>, Quoted(SQ, <<"c">>)),
      MemberText(<<"xxl">>, Quoted(DQ, <<"a">>)),
      MemberText(<<"md">>, Quoted(DQ, <<SP>>)),
      MemberText(<<"lg">>, <<"v">>),
      MemberText(Quoted(DQ, <<"2xl">>), Quoted(DQ, <<"a">>)) }

ObjectLiterals == {ObjectText(m) : m \in SeqsUpTo(Members, MaxProps)}

\* Second arguments that are not object literals.
OtherSecondArgs ==
    { <<"v">>,
      Quoted(DQ, <<"a">>),
      CallText(TW, <<>>),
      CallText(TW, <<Quoted(DQ, <<"b">>)>>) }

SecondArgs == ObjectLiterals \cup OtherSecondArgs

OneArgCalls ==
    {CallText(TW, <<b>>) : b \in StaticBases \cup OtherStaticBases \cup DynamicBases}

TwoArgCalls ==
    {CallText(TW, <<b, o>>) : b \in StaticBases \cup {<<"v">>}, o \in SecondArgs}

\* Texts with no target call: other callees, member calls, no call at all.
NoTargetTexts ==
    { <<"v">>,
      CallText(<<"f">>, <<Quoted(DQ, <<"a">>)>>),
      CallText(<<"o", ".", "tw">>, <<Quoted(DQ, <<"a">>)>>),
      CallText(<<"tw", "x">>, <<Quoted(DQ, <<"a">>)>>),
      Quoted(DQ, <<"tw", "(", ")">>) }

\* Texts that are not JavaScript.
BrokenTexts ==
    { <<"tw", "(", DQ, "a">>,
      <<"tw", "(", DQ, "a", DQ>>,
      CallText(TW, <<>>) \o <<SP>> \o CallText(TW, <<Quoted(DQ, <<"a">>)>>),
      CallText(TW, <<ObjectText(<<MemberText(<<"2xl">>, Quoted(DQ, <<"a">>))>>)>>) }

\* Statements that multi-statement inputs are made of.
Statements ==
    { CallText(TW, <<>>),
      CallText(TW, <<CallText(TW, <<Quoted(DQ, <<"b">>)>>)>>),
      CallText(TW, <<Quoted(DQ, <<"a">>)>>),
      CallText(TW, <<Quoted(DQ, <<"a">>),
                     ObjectText(<<MemberText(<<"xxl">>, Quoted(DQ, <<"b">>))>>)>>),
      CallText(<<"f">>, <<CallText(TW, <<Quoted(DQ, <<"a">>)>>)>>) }

Programs ==
    {join(p, <<";", NL>>) : p \in UNION {[1..k -> Statements] : k \in 2..MaxStmts}}

\* A string whose text closes the replacement's quotes and goes on as code.
InjectionTexts ==
    { CallText(TW, <<Quoted(SQ, <<DQ, "+">> \o CallText(TW, <<Quoted(DQ, <<"a">>)>>)
                                   \o <<"+", DQ>>)>>),
      CallText(TW, <<Quoted(SQ, <<"a", DQ, "b">>)>>),
      CallText(TW, <<Quoted(DQ, <<"a", BS, "n", "b">>)>>) }

\* A template literal with an escape sequence in its only chunk.
EscapeTexts ==
    { CallText(TW, <<Quoted(BT, <<"a", BS, "n", "b">>)>>) }

\* Object literals with a computed key, and with a spread element and a
\* method next to a plain entry.
MemberFormTexts ==
    { CallText(TW, <<Quoted(DQ, <<"a">>),
                     ObjectText(<<MemberText(<<"[", "md", "]">>, Quoted(DQ, <<"b">>))>>)>>),
      CallText(TW, <<Quoted(DQ, <<"a">>),
                     ObjectText(<<<<SPREAD, "v">>,
                                  <<"md", "(", ")", SP, "{", "}">>,
                                  MemberText(<<"lg">>, Quoted(DQ, <<"b">>))>>)>>) }

\* Entries whose value is empty or blank, under a breakpoint that no list
\* has and under one that every list has.
BlankValueTexts ==
    { CallText(TW, <<Quoted(DQ, <<"a">>),
                     ObjectText(<<MemberText(<<"xxl">>, Quoted(DQ, <<SP>>)),
                                  MemberText(<<"md">>, Quoted(DQ, <<>>))>>)>>) }

\* A target call as the first argument of a target call that has an
\* object literal for its second.
NestedBaseTexts ==
    { CallText(TW, <<CallText(TW, <<Quoted(DQ, <<"a">>)>>),
                     ObjectText(<<MemberText(<<"md">>, Quoted(DQ, <<"b">>))>>)>>) }

\* An empty and a blank base with an accepted variant.
EmptyBaseTexts ==
    { CallText(TW, <<Quoted(DQ, <<>>),
                     ObjectText(<<MemberText(<<"md">>, Quoted(DQ, <<"a">>))>>)>>),
      CallText(TW, <<Quoted(DQ, <<SP>>),
                     ObjectText(<<MemberText(<<"md">>, Quoted(DQ, <<"a">>)),
                                  MemberText(<<"lg">>, Quoted(DQ, <<"b">>))>>)>>) }

\* A variant declared twice, with another variant in between.
DuplicateTexts ==
    { CallText(TW, <<Quoted(DQ, <<"a">>),
                     ObjectText(<<MemberText(<<"md">>, Quoted(DQ, <<"a">>)),
                                  MemberText(<<"lg">>, Quoted(DQ, <<"b">>)),
                                  MemberText(<<"md">>, Quoted(DQ, <<"c">>))>>)>>) }

Inputs ==
    OneArgCalls \cup TwoArgCalls \cup NoTargetTexts \cup BrokenTexts
        \cup Programs \cup InjectionTexts \cup EscapeTexts
        \cup MemberFormTexts \cup BlankValueTexts \cup NestedBaseTexts
        \cup EmptyBaseTexts \cup DuplicateTexts

(***************************************************************************)
(* State                                                                   *)
(***************************************************************************)
VARIABLES
    breakpoints,    \* the plugin's breakpoints (options.breakpoints or the default)
    debug,          \* the plugin's debug flag
    code,           \* the handler's code argument
    id,             \* the handler's id argument
    pc,             \* "idle", or where the invocation is: "parse", "traverse",
                    \* "done" (returned), "threw" (an exception left it)
    ast,            \* transformCode's ast
    visit,          \* index of the next call expression the traversal enters
    s,              \* transformCode's MagicString
    hasTransforms,  \* transformCode's hasTransforms
    result,         \* what the handler returned
    errors,         \* the calls of context.error, in order
    warns,          \* the calls of context.warn, in order
    console,        \* what was written to the console, in order
    run,            \* how many times the handler was invoked
    prev,           \* the previous invocation's arguments and outcome
    host            \* the host's modules and plugin instances: which module it is
                    \* at ("alone", "other", "again"), the outcome of the first
                    \* invocation, and the breakpoints of the plugin instance that
                    \* is not in use (<<>> while there is only one instance)

vars ==
    <<breakpoints, debug, code, id, pc, ast, visit, s, hasTransforms, result,
      errors, warns, console, run, prev, host>>

\* What the handler returns: null, or a TransformResult.
NoResult == [kind |-> "none", code |-> <<>>, map |-> <<>>]

NullResult == [kind |-> "null", code |-> <<>>, map |-> <<>>]

\* TransformResult, were null returned in its place.
TransformResult_Null(text, map) == [kind |-> "null", code |-> <<>>, map |-> <<>>]

\* TransformResult, were the result handed back under debug only.
TransformResult_UnderDebug(text, map) ==
    IF debug THEN [kind |-> "result", code |-> text, map |-> map]
    ELSE [kind |-> "null", code |-> <<>>, map |-> <<>>]

TransformResult(text, map) == [kind |-> "result", code |-> text, map |-> map]

NoRun == [code |-> <<>>, id |-> "", pc |-> "idle", result |-> NoResult,
          errors |-> <<>>, warns |-> <<>>, console |-> <<>>]

Outcome ==
    [code |-> code, id |-> id, pc |-> pc, result |-> result,
     errors |-> errors, warns |-> warns, console |-> console]

Init ==
    /\ breakpoints \in BreakpointLists
    /\ debug \in BOOLEAN
    /\ code = <<>>
    /\ id = ""
    /\ pc = "idle"
    /\ ast = NoNode
    /\ visit = 0
    /\ s = NewMagicString(<<>>)
    /\ hasTransforms = FALSE
    /\ result = NoResult
    /\ errors = <<>>
    /\ warns = <<>>
    /\ console = <<>>
    /\ run = 0
    /\ prev = NoRun
    /\ host = [stage |-> "alone", first |-> NoRun, idle |-> <<>>]

Log(text, subject, detail) ==
    [level |-> "log", text |-> text, subject |-> subject, detail |-> detail]

(***************************************************************************)
(* transform.handler(code, id): the host hands the plugin a module.  A     *)
(* later invocation hands it the same module again, or the code the        *)
(* previous invocation returned.  transformCode's locals (ast, s,          *)
(* hasTransforms) do not outlive an invocation: they start out empty.      *)
(***************************************************************************)
handler(c, moduleId) ==
    /\ pc \in {"idle", "done", "threw"}
    /\ run < MaxRuns
    /\ run' = run + 1
    /\ prev' = Outcome
    /\ code' = c
    /\ id' = moduleId
    /\ errors' = <<>>
    /\ warns' = <<>>
    /\ ast' = NoNode
    /\ visit' = 0
    /\ s' = NewMagicString(<<>>)
    /\ hasTransforms' = FALSE
    /\ UNCHANGED <<breakpoints, debug, host>>
    /\ IF ~filter(moduleId)
       THEN /\ pc' = "done"
            /\ result' = NullResult
            /\ console' = <<>>
       ELSE /\ pc' = "parse"
            /\ result' = NoResult
            /\ console' = IF debug
                          THEN <<Log("[tw-classname] Processing", <<moduleId>>, <<>>)>>
                          ELSE <<>>

Invoke ==
    \/ /\ run = 0
       /\ \E c \in Inputs, moduleId \in Ids : handler(c, moduleId)
    \/ /\ run > 0
       /\ handler(code, id)
    \/ /\ run > 0
       /\ result.kind = "result"
       /\ handler(result.code, id)

(***************************************************************************)
(* transformCode, lines 44-61: parse, then set up the traversal.           *)
(***************************************************************************)
ParseError(moduleId, at) ==
    [message |-> <<"Failed to parse", moduleId>>, cause |-> at,
     pluginCode |-> "PARSE_ERROR"]

\* The catch block, were the error swallowed.
ParseFailure_Silent(at) ==
    /\ result' = NullResult
    /\ pc' = "done"
    /\ UNCHANGED <<errors, ast, visit, s, hasTransforms, warns>>

\* The catch block, were the failure reported as a warning as well.
ParseFailure_AlsoWarned(at) ==
    /\ errors' = Append(errors, ParseError(id, at))
    /\ warns' = Append(warns, [message |-> <<"Failed to parse", id>>, id |-> id,
                                pluginCode |-> "PARSE_ERROR", at |-> <<at, at>>])
    /\ result' = NullResult
    /\ pc' = "done"
    /\ UNCHANGED <<ast, visit, s, hasTransforms>>

\* The catch block: report the error to the host and return null.
ParseFailure(at) ==
    /\ errors' = Append(errors, ParseError(id, at))
    /\ result' = NullResult
    /\ pc' = "done"
    /\ UNCHANGED <<ast, visit, s, hasTransforms, warns>>

Parse ==
    /\ pc = "parse"
    /\ LET p == parse(code)
       IN  IF ~p.ok
           THEN ParseFailure(p.pos)
           ELSE /\ ast' = p.node
                /\ s' = NewMagicString(code)
                /\ hasTransforms' = FALSE
                /\ visit' = 1
                /\ pc' = "traverse"
                /\ UNCHANGED <<errors, result, warns>>
    /\ UNCHANGED <<breakpoints, debug, code, id, console, run, prev, host>>

(***************************************************************************)
(* transformCode, lines 65-125: the CallExpression visitor, entered once   *)
(* for each call expression of the tree.                                   *)
(***************************************************************************)
\* The argument of context.warn.  at is not part of what the host
\* receives: it records the call expression the warning is about.
Warning(pluginCode, message, moduleId, node) ==
    [message |-> <<message, moduleId>>, id |-> moduleId, pluginCode |-> pluginCode,
     at |-> <<node.start, node.end>>]

\* IsTwCall, were any identifier taken for the target.
IsTwCall_AnyIdentifier(node) == node.kids[1].type = "Identifier"

IsTwCall(node) ==
    /\ node.kids[1].type = "Identifier"
    /\ node.kids[1].value = <<"tw">>

Arguments(node) == Tail(node.kids)

\* args[i], undefined past the end of the array.
Arg(node, i) == IF i <= Len(Arguments(node)) THEN Arguments(node)[i] ELSE NoNode

\* Verdict, were the number of arguments not looked at.
Verdict_ArityUnchecked(node) ==
    IF ~IsTwCall(node) THEN "skip"
    ELSE IF extractStringLiteral(Arg(node, 1)).null THEN "INVALID_BASE_CLASSES"
    ELSE "rewrite"

\* Verdict, were nothing done any more once a warning has been reported.
Verdict_DoneAfterWarning(node) ==
    IF ~IsTwCall(node) \/ warns # <<>> THEN "skip"
    ELSE IF Len(Arguments(node)) = 0 THEN "MISSING_ARGUMENTS"
    ELSE IF extractStringLiteral(Arg(node, 1)).null THEN "INVALID_BASE_CLASSES"
    ELSE "rewrite"

\* What the visitor does with a call expression: nothing ("skip"), one of
\* its two warnings, or the rewrite.
Verdict(node) ==
    IF ~IsTwCall(node) THEN "skip"
    ELSE IF Len(Arguments(node)) = 0 THEN "MISSING_ARGUMENTS"
    ELSE IF extractStringLiteral(Arg(node, 1)).null THEN "INVALID_BASE_CLASSES"
    ELSE "rewrite"

\* Lines 95-104: the class string of a call whose base is a static string.
Transformed(node, bps) ==
    LET baseClasses == extractStringLiteral(Arg(node, 1))
        responsiveObj == IF Len(Arguments(node)) > 1
                         THEN extractObjectExpression(Arg(node, 2))
                         ELSE <<>>
    IN  buildClassString(baseClasses.value, responsiveObj, bps)

DebugTransformed(node, output) ==
    IF debug
    THEN <<Log("[tw-classname] Transformed in", <<id>>,
               SubSeq(code, node.start + 1, node.end) \o <<"=>">> \o output)>>
    ELSE <<>>

CallExpression ==
    /\ pc = "traverse"
    /\ visit <= Len(CallPaths(ast))
    /\ LET node == CallPaths(ast)[visit]
           verdict == Verdict(node)
           built == Transformed(node, breakpoints)
           output == Quoted(DQ, built.result)
       IN  IF verdict = "skip"
           THEN /\ visit' = visit + 1
                /\ UNCHANGED <<pc, s, hasTransforms, warns, console, breakpoints>>
           ELSE IF verdict = "MISSING_ARGUMENTS"
           THEN /\ warns' = Append(warns,
                               Warning("MISSING_ARGUMENTS",
                                       "tw() called without arguments at", id, node))
                /\ visit' = visit + 1
                /\ UNCHANGED <<pc, s, hasTransforms, console, breakpoints>>
           ELSE IF verdict = "INVALID_BASE_CLASSES"
           THEN /\ warns' = Append(warns,
                               Warning("INVALID_BASE_CLASSES",
                                       "tw() first argument must be a string literal at",
                                       id, node))
                /\ visit' = visit + 1
                /\ UNCHANGED <<pc, s, hasTransforms, console, breakpoints>>
           ELSE IF ~CanOverwrite(s, node.start, node.end)
           THEN /\ pc' = "threw"
                /\ console' = console \o built.console
                /\ breakpoints' = built.breakpoints
                /\ UNCHANGED <<visit, s, hasTransforms, warns>>
           ELSE /\ s' = Overwrite(s, node.start, node.end, output)
                /\ hasTransforms' = TRUE
                /\ console' = console \o built.console \o DebugTransformed(node, output)
                /\ breakpoints' = built.breakpoints
                /\ visit' = visit + 1
                /\ UNCHANGED <<pc, warns>>
    /\ UNCHANGED <<debug, code, id, ast, result, errors, run, prev, host>>

(***************************************************************************)
(* transformCode, lines 128-138, and the handler's return.                 *)
(***************************************************************************)
Return ==
    /\ pc = "traverse"
    /\ visit > Len(CallPaths(ast))
    /\ pc' = "done"
    /\ IF ~hasTransforms
       THEN /\ result' = NullResult
            /\ UNCHANGED console
       ELSE /\ result' = TransformResult(toString(s), generateMap(s, id))
            /\ console' =
                 IF debug
                 THEN Append(console,
                             Log("[tw-classname] Successfully transformed", <<id>>, <<>>))
                 ELSE console
    /\ UNCHANGED <<breakpoints, debug, code, id, ast, visit, s, hasTransforms,
                   errors, warns, run, prev, host>>

Next == Invoke \/ Parse \/ CallExpression \/ Return

Spec == Init /\ [][Next]_vars

(***************************************************************************)
(* A host with several modules and plugin instances.  The handler is       *)
(* synchronous: invocations on different modules follow one another in any *)
(* order, each through a plugin instance with a breakpoints array of its   *)
(* own (index.ts line 29).  The host transforms a module, then another     *)
(* module through the same instance or a new one, then the first module    *)
(* again through the first instance.                                       *)
(***************************************************************************)
\* The modules of the application.
Modules == Programs \cup OneArgCalls \cup NoTargetTexts \cup BrokenTexts

OtherModules ==
    { CallText(TW, <<>>),
      CallText(TW, <<Quoted(DQ, <<"b">>)>>),
      CallText(TW, <<Quoted(DQ, <<"a">>),
                     ObjectText(<<MemberText(<<"xxl">>, Quoted(DQ, <<"a">>)),
                                  MemberText(<<"md">>, Quoted(DQ, <<"c">>))>>)>>),
      CallText(TW, <<Quoted(DQ, <<"a">>), CallText(TW, <<Quoted(DQ, <<"b">>)>>)>>) }

Over == pc \in {"done", "threw"}

InvokeAlone ==
    /\ run = 0
    /\ \E c \in Modules : handler(c, AppId)

\* The host goes on to another module, through the same plugin instance
\* or through a new one, twClassname(options).
TurnToOther ==
    /\ Over
    /\ run = 1
    /\ host.stage = "alone"
    /\ \E fresh \in BOOLEAN, list \in BreakpointLists :
          IF fresh
          THEN /\ breakpoints' = list
               /\ host' = [stage |-> "other", first |-> Outcome, idle |-> breakpoints]
          ELSE /\ list = breakpoints
               /\ breakpoints' = breakpoints
               /\ host' = [stage |-> "other", first |-> Outcome, idle |-> <<>>]
    /\ UNCHANGED <<debug, code, id, pc, ast, visit, s, hasTransforms, result,
                   errors, warns, console, run, prev>>

InvokeOther ==
    /\ host.stage = "other"
    /\ run = 1
    /\ \E c \in OtherModules : handler(c, OtherId)

\* The host comes back to the first module and its plugin instance.
TurnBack ==
    /\ Over
    /\ run = 2
    /\ host.stage = "other"
    /\ breakpoints' = IF host.idle = <<>> THEN breakpoints ELSE host.idle
    /\ host' = [host EXCEPT !.stage = "again",
                            !.idle = IF host.idle = <<>> THEN <<>> ELSE breakpoints]
    /\ UNCHANGED <<debug, code, id, pc, ast, visit, s, hasTransforms, result,
                   errors, warns, console, run, prev>>

InvokeAgain ==
    /\ host.stage = "again"
    /\ run = 2
    /\ handler(host.first.code, host.first.id)

NextHost ==
    \/ InvokeAlone
    \/ TurnToOther
    \/ InvokeOther
    \/ TurnBack
    \/ InvokeAgain
    \/ Parse
    \/ CallExpression
    \/ Return

SpecHost == Init /\ [][NextHost]_vars

(***************************************************************************)
(* Two plugin instances that differ in their debug option only             *)
(* (index.ts line 30): the host transforms a module through one, then the  *)
(* same module through the other.                                          *)
(***************************************************************************)
InvokeFirst ==
    /\ run = 0
    /\ \E c \in Inputs, moduleId \in Ids : handler(c, moduleId)

\* The host goes on with an instance made from the same options but for
\* debug, which is the opposite.
OtherDebug ==
    /\ Over
    /\ run = 1
    /\ host.stage = "alone"
    /\ debug' = ~debug
    /\ host' = [stage |-> "again", first |-> Outcome, idle |-> breakpoints]
    /\ UNCHANGED <<breakpoints, code, id, pc, ast, visit, s, hasTransforms, result,
                   errors, warns, console, run, prev>>

InvokeOtherDebug ==
    /\ host.stage = "again"
    /\ run = 1
    /\ handler(host.first.code, host.first.id)

NextDebug ==
    \/ InvokeFirst
    \/ OtherDebug
    \/ InvokeOtherDebug
    \/ Parse
    \/ CallExpression
    \/ Return

SpecDebug == Init /\ [][NextDebug]_vars

(***************************************************************************)
(* Vocabulary of the properties.  It speaks of the source text, its call   *)
(* expressions and what was handed to the host, never of the operators     *)
(* that compute the rewrite.                                               *)
(***************************************************************************)
\* The call expressions of the module under transformation, and those the
\* visitor has dealt with so far.
Calls == IF ast.type = "File" THEN CallPaths(ast) ELSE <<>>

Visited == {k \in 1..Len(Calls) : k < visit}

\* The invocation has returned from transformCode.
Returned == pc = "done" /\ ast.type = "File"

IsTarget(n) == n.kids[1].type = "Identifier" /\ n.kids[1].value = <<"tw">>

ArgCount(n) == Len(n.kids) - 1

IsStatic(n) ==
    \/ n.type = "StringLiteral"
    \/ n.type = "TemplateLiteral" /\ n.kids = <<>>

StaticText(n) == IF n.type = "StringLiteral" THEN n.value ELSE n.quasis[1]

\* The whitespace-separated tokens of a string.
RECURSIVE TokensFrom(_, _, _)
TokensFrom(str, i, word) ==
    IF i > Len(str) THEN (IF word = <<>> THEN <<>> ELSE <<word>>)
    ELSE IF str[i] \in Whitespace
         THEN (IF word = <<>> THEN <<>> ELSE <<word>>) \o TokensFrom(str, i + 1, <<>>)
    ELSE TokensFrom(str, i + 1, Append(word, str[i]))

Tokens(str) == TokensFrom(str, 1, <<>>)

Blank(str) == \A i \in 1..Len(str) : str[i] \in Whitespace

\* The trimmed string: what is left between its first and its last
\* character that is not whitespace.
Trimmed(str) ==
    IF Blank(str) THEN <<>>
    ELSE LET solid == {i \in 1..Len(str) : str[i] \notin Whitespace}
             first == CHOOSE i \in solid : \A j \in solid : i <= j
             last == CHOOSE i \in solid : \A j \in solid : j <= i
         IN  SubSeq(str, first, last)

\* One variant's segment: each token of the value behind "<variant>:".
Segment(variant, value) ==
    join([i \in 1..Len(Tokens(value)) |-> variant \o <<":">> \o Tokens(value)[i]],
         <<SP>>)

\* The edit made for a call expression, if any, and the text it put there.
Edited(n) == \E e \in s.edits : e.start = n.start /\ e.end = n.end

Replacement(n) == (CHOOSE e \in s.edits : e.start = n.start /\ e.end = n.end).content

\* Where an offset of the source text lies in the returned code: every
\* edit that ends at or before it has moved it.
RECURSIVE Growth(_, _)
Growth(edits, offset) ==
    IF edits = {} THEN 0
    ELSE LET e == CHOOSE x \in edits : TRUE
         IN  (IF e.end <= offset THEN Len(e.content) - (e.end - e.start) ELSE 0)
                + Growth(edits \ {e}, offset)

OutOffset(offset) == offset + Growth(s.edits, offset)

\* The call is replaced by text: the edit is made, and once the invocation
\* has returned, the returned code carries text where the call was.
ReplacedBy(n, text) ==
    /\ Edited(n)
    /\ Replacement(n) = text
    /\ Returned =>
          /\ result.kind = "result"
          /\ SubSeq(result.code, OutOffset(n.start) + 1, OutOffset(n.start) + Len(text))
                = text
          /\ OutOffset(n.end) = OutOffset(n.start) + Len(text)

\* The warnings handed to context.warn about a call expression.
WarningsAbout(n) == {i \in 1..Len(warns) : warns[i].at = <<n.start, n.end>>}

\* The members of an object literal, their keys and values.
KeyNode(m) == m.kids[1]

ValueNode(m) == m.kids[2]

PlainKey(m) == m.type = "ObjectProperty" /\ KeyNode(m).type = "Identifier" /\ ~m.computed

QuotedKey(m) == m.type = "ObjectProperty" /\ KeyNode(m).type = "StringLiteral" /\ ~m.computed

KeyName(m) == KeyNode(m).value

Allowed(variant) == \E i \in 1..Len(breakpoints) : breakpoints[i] = variant

\* A member that names an allowed variant and gives it a static value that
\* is not blank.
Composable(m) ==
    /\ PlainKey(m) \/ QuotedKey(m)
    /\ Allowed(KeyName(m))
    /\ IsStatic(ValueNode(m))
    /\ ~Blank(StaticText(ValueNode(m)))

\* A target call with a static base and an object literal as its second
\* argument.
HasMapping(n) ==
    /\ IsTarget(n)
    /\ ArgCount(n) >= 2
    /\ IsStatic(n.kids[2])
    /\ n.kids[3].type = "ObjectExpression"

Base(n) == StaticText(n.kids[2])

MembersOf(n) == n.kids[3].kids

FirstDeclared(members, i) == \A j \in 1..(i - 1) : KeyName(members[j]) # KeyName(members[i])

LastDeclared(members, i) ==
    \A j \in (i + 1)..Len(members) : KeyName(members[j]) # KeyName(members[i])

\* The value a variant ends up with: that of its last declaration.
FinalValue(members, i) ==
    LET last == CHOOSE j \in 1..Len(members) :
                    KeyName(members[j]) = KeyName(members[i]) /\ LastDeclared(members, j)
    IN  StaticText(ValueNode(members[last]))

\* One segment per member, in declaration order.
EverySegment(members) ==
    [i \in 1..Len(members) |->
        Segment(KeyName(members[i]), StaticText(ValueNode(members[i])))]

\* One segment per variant, where the variant is first declared, with the
\* value of its last declaration.
RECURSIVE VariantSegments(_, _)
VariantSegments(members, i) ==
    IF i > Len(members) THEN <<>>
    ELSE (IF FirstDeclared(members, i)
          THEN <<Segment(KeyName(members[i]), FinalValue(members, i))>>
          ELSE <<>>) \o VariantSegments(members, i + 1)

Composed(base, segments) == Quoted(DQ, join(<<Trimmed(base)>> \o segments, <<SP>>))

(***************************************************************************)
(* C1.  Composition                                                        *)
(***************************************************************************)
\* C1, as stated: a target call with a static base and an object literal
\* whose every entry has an allowed key and a static value that is not
\* blank is replaced by the double-quoted string made of the trimmed base
\* and then, for each entry in declaration order, the value's tokens each
\* prefixed with "<variant>:", all joined by single spaces.
C1_EveryEntryComposed ==
    \A k \in Visited :
       LET n == Calls[k]
       IN  (HasMapping(n) /\ \A i \in 1..Len(MembersOf(n)) : Composable(MembersOf(n)[i]))
              => ReplacedBy(n, Composed(Base(n), EverySegment(MembersOf(n))))

\* C1, amended: when every entry has a plain (unquoted, not computed)
\* allowed key and a static value that is not blank, the call is replaced
\* by the double-quoted string made of the trimmed base and then one
\* segment per variant, placed where the variant is first declared and
\* made of the tokens of its last declared value, each prefixed with
\* "<variant>:", all joined by single spaces.
C1_Composition ==
    \A k \in Visited :
       LET n == Calls[k]
       IN  (/\ HasMapping(n)
            /\ \A i \in 1..Len(MembersOf(n)) :
                  PlainKey(MembersOf(n)[i]) /\ Composable(MembersOf(n)[i]))
              => ReplacedBy(n, Composed(Base(n), VariantSegments(MembersOf(n), 1)))

\* A returned invocation that rewrote a call with two different variants,
\* one of them with a value of several tokens.
C1_Witness ==
    /\ Returned
    /\ \E k \in Visited :
          LET n == Calls[k]
              members == IF HasMapping(n) THEN MembersOf(n) ELSE <<>>
          IN  /\ Len(members) = 2
              /\ \A i \in 1..2 : PlainKey(members[i]) /\ Composable(members[i])
              /\ KeyName(members[1]) # KeyName(members[2])
              /\ \E i \in 1..2 : Len(Tokens(StaticText(ValueNode(members[i])))) > 1
              /\ ReplacedBy(n, Composed(Base(n), VariantSegments(members, 1)))

(***************************************************************************)
(* C2.  Order preservation                                                 *)
(***************************************************************************)
\* Where in a text the segment tokens of a variant start.
SegmentAt(text, variant) ==
    {p \in 2..(Len(text) - Len(variant)) :
        /\ text[p - 1] \in {DQ, SP}
        /\ SubSeq(text, p, p + Len(variant)) = variant \o <<":">>}

\* An entry that declares a variant: a plain key with a static value.
Declares(m) == PlainKey(m) /\ IsStatic(ValueNode(m))

\* The entry is the first to declare its variant.
DeclaresFirst(members, i) ==
    /\ Declares(members[i])
    /\ \A j \in 1..(i - 1) :
          Declares(members[j]) => KeyName(members[j]) # KeyName(members[i])

\* C2: in the string composed for a call, the segment of a variant
\* declared earlier in the object literal stands before the segment of a
\* variant declared later, whatever the order of the breakpoints list.
C2_OrderPreserved ==
    \A k \in Visited :
       LET n == Calls[k]
       IN  (HasMapping(n) /\ Edited(n)) =>
              \A i, j \in 1..Len(MembersOf(n)) :
                 LET mi == MembersOf(n)[i]
                     mj == MembersOf(n)[j]
                 IN  (/\ i < j
                      /\ DeclaresFirst(MembersOf(n), i)
                      /\ DeclaresFirst(MembersOf(n), j))
                        => \A p \in SegmentAt(Replacement(n), KeyName(mi)) :
                              \A q \in SegmentAt(Replacement(n), KeyName(mj)) : p < q

BreakpointIndex(variant) == CHOOSE i \in 1..Len(breakpoints) : breakpoints[i] = variant

\* A returned invocation whose result carries the segments of two
\* variants declared in the order opposite to that of the breakpoints list.
C2_Witness ==
    /\ Returned
    /\ result.kind = "result"
    /\ \E k \in Visited :
          LET n == Calls[k]
          IN  /\ HasMapping(n)
              /\ Edited(n)
              /\ \E i, j \in 1..Len(MembersOf(n)) :
                    LET mi == MembersOf(n)[i]
                        mj == MembersOf(n)[j]
                    IN  /\ i < j
                        /\ DeclaresFirst(MembersOf(n), i)
                        /\ DeclaresFirst(MembersOf(n), j)
                        /\ Allowed(KeyName(mi)) /\ Allowed(KeyName(mj))
                        /\ BreakpointIndex(KeyName(mi)) > BreakpointIndex(KeyName(mj))
                        /\ SegmentAt(result.code, KeyName(mi)) # {}
                        /\ SegmentAt(result.code, KeyName(mj)) # {}

(***************************************************************************)
(* C3.  Base alone                                                         *)
(***************************************************************************)
BaseAlone(n) ==
    /\ IsTarget(n)
    /\ ArgCount(n) >= 1
    /\ IsStatic(n.kids[2])
    /\ ArgCount(n) = 1 \/ n.kids[3].type # "ObjectExpression"

\* C3: a target call with a static base and no second argument, or one
\* that is not an object literal, is replaced by the double-quoted
\* trimmed base, and no warning is reported about it.
C3_BaseAlone ==
    \A k \in Visited :
       BaseAlone(Calls[k]) =>
          /\ ReplacedBy(Calls[k], Quoted(DQ, Trimmed(Base(Calls[k]))))
          /\ WarningsAbout(Calls[k]) = {}

\* A returned invocation that rewrote such a call, one with a second
\* argument and a base that has whitespace to trim.
C3_Witness ==
    /\ Returned
    /\ \E k \in Visited :
          /\ BaseAlone(Calls[k])
          /\ ArgCount(Calls[k]) = 2
          /\ Trimmed(Base(Calls[k])) # Base(Calls[k])
          /\ ReplacedBy(Calls[k], Quoted(DQ, Trimmed(Base(Calls[k]))))

(***************************************************************************)
(* C4.  Base that is not a static string                                   *)
(***************************************************************************)
NonStaticBase(n) == IsTarget(n) /\ ArgCount(n) >= 1 /\ ~IsStatic(n.kids[2])

\* The text the host goes on with: the returned code, or the source text
\* when null is returned.
Output == IF result.kind = "result" THEN result.code ELSE code

InsideEdit(offset) == \E e \in s.edits : e.start <= offset /\ offset < e.end

OneWarning(n, pluginCode) ==
    /\ Cardinality(WarningsAbout(n)) = 1
    /\ \A i \in WarningsAbout(n) : warns[i].pluginCode = pluginCode

\* So far the visitor has met no target call with a static base.
NothingToRewrite ==
    \A k \in Visited :
       IsTarget(Calls[k]) => ArgCount(Calls[k]) = 0 \/ NonStaticBase(Calls[k])

ConsoleWarnings == {i \in 1..Len(console) : console[i].level = "warn"}

C5_MissingArguments ==
    \A k \in Visited :
       (IsTarget(Calls[k]) /\ ArgCount(Calls[k]) = 0) =>
          /\ ~Edited(Calls[k])
          /\ OneWarning(Calls[k], "MISSING_ARGUMENTS")
          /\ errors = <<>>

\* A returned invocation that warned about such a call and rewrote
\* another call of the same module.
C5_Witness ==
    /\ Returned
    /\ result.kind = "result"
    /\ \E k \in Visited :
          /\ IsTarget(Calls[k])
          /\ ArgCount(Calls[k]) = 0
          /\ OneWarning(Calls[k], "MISSING_ARGUMENTS")

(***************************************************************************)
(* C6.  Unknown variant                                                    *)
(***************************************************************************)
UnknownEntries(n) ==
    {i \in 1..Len(MembersOf(n)) :
        /\ PlainKey(MembersOf(n)[i])
        /\ IsStatic(ValueNode(MembersOf(n)[i]))
        /\ ~Allowed(KeyName(MembersOf(n)[i]))}

\* C6, as stated: a target call with a static base and one entry whose
\* variant is not allowed is still rewritten, and exactly one warning
\* with the code UNKNOWN_VARIANT is handed to context.warn for that entry.
C6_UnknownVariantWarned ==
    \A k \in Visited :
       LET n == Calls[k]
       IN  (HasMapping(n) /\ Cardinality(UnknownEntries(n)) = 1) =>
              /\ Edited(n)
              /\ Cardinality({i \in 1..Len(warns) :
                                 warns[i].pluginCode = "UNKNOWN_VARIANT"}) = 1

(***************************************************************************)
(* C7.  Parse failure                                                      *)
(***************************************************************************)
ParseFailed == pc = "done" /\ filter(id) /\ ~parse(code).ok

\* C7: when the source text does not parse, context.error is called
\* exactly once, with the code PARSE_ERROR, no warning is reported, no
\* edit is made and null is returned.
C7_ParseError ==
    ParseFailed =>
       /\ Len(errors) = 1
       /\ errors[1].pluginCode = "PARSE_ERROR"
       /\ warns = <<>>
       /\ s.edits = {}
       /\ result = NullResult

\* An invocation that returned from a text that does not parse, although
\* it begins with a target call that does.
C7_Witness ==
    /\ ParseFailed
    /\ Len(errors) = 1
    /\ errors[1].cause > 0
    /\ result = NullResult

(***************************************************************************)
(* C8.  No-op safety                                                       *)
(***************************************************************************)
NoTarget == \A k \in 1..Len(Calls) : ~IsTarget(Calls[k])

\* C8: when the source text parses and no call expression in it has the
\* bare identifier tw as its callee, null is returned and nothing is
\* reported.
C8_NoOp ==
    (Returned /\ NoTarget) =>
       /\ result = NullResult
       /\ errors = <<>>
       /\ warns = <<>>
       /\ ConsoleWarnings = {}
       /\ s.edits = {}

\* A returned invocation on a text with a call expression, none to tw.
C8_Witness ==
    /\ Returned
    /\ NoTarget
    /\ Len(Calls) > 0
    /\ result = NullResult

(***************************************************************************)
(* C9.  Idempotence                                                        *)
(***************************************************************************)
\* The invocation is over, and it was given the code the previous one
\* returned, under the same id.
RerunOnResult ==
    /\ run > 1
    /\ pc \in {"done", "threw"}
    /\ prev.result.kind = "result"
    /\ code = prev.result.code
    /\ id = prev.id

\* C9, as stated: running the transformation again on the code it
\* returned returns null.
C9_Idempotent == RerunOnResult => pc = "done" /\ result = NullResult

(***************************************************************************)
(* C10.  Purity                                                            *)
(***************************************************************************)
\* The invocation is over, and it was given the arguments of the
\* previous one.
RerunOnSame ==
    /\ run > 1
    /\ pc \in {"done", "threw"}
    /\ code = prev.code
    /\ id = prev.id

C11_NoException == pc # "threw"

(***************************************************************************)
(* C12.  Disjoint ranges                                                   *)
(***************************************************************************)
\* The ranges s.overwrite was called with: those of the edits made, and
\* that of the call whose overwrite threw.
Overwritten ==
    {<<e.start, e.end>> : e \in s.edits}
        \cup (IF pc = "threw" THEN {<<Calls[visit].start, Calls[visit].end>>} ELSE {})

\* C12, as stated: the ranges overwritten in an invocation are pairwise
\* disjoint.
C12_DisjointRanges ==
    \A a, b \in Overwritten : a # b => a[2] <= b[1] \/ b[2] <= a[1]

(***************************************************************************)
(* C13.  Calls with a diagnostic                                           *)
(***************************************************************************)
\* The call has set off an advisory diagnostic: a warning about it, or
\* the message about an unknown breakpoint among its entries.
Diagnosed(n) ==
    \/ WarningsAbout(n) # {}
    \/ HasMapping(n) /\ UnknownEntries(n) # {} /\ ConsoleWarnings # {}

\* Outside the edits, the text of the call is in the output as it was.
KeptOutsideEdits(n) ==
    \A offset \in n.start..(n.end - 1) :
       ~InsideEdit(offset) => Output[OutOffset(offset) + 1] = code[offset + 1]

\* C13, as stated: a call that sets off MISSING_ARGUMENTS,
\* INVALID_BASE_CLASSES or the unknown-variant diagnostic gets no edit,
\* and its text is in the output verbatim.
C13_DiagnosedUntouched ==
    \A k \in Visited :
       LET n == Calls[k]
       IN  Diagnosed(n) =>
              /\ ~Edited(n)
              /\ Returned =>
                    /\ \A offset \in n.start..(n.end - 1) : ~InsideEdit(offset)
                    /\ KeptOutsideEdits(n)

\* C13, amended: a call that sets off MISSING_ARGUMENTS or
\* INVALID_BASE_CLASSES gets no edit of its own, and every character of
\* it outside the rewritten calls (those nested in it, or one around it)
\* is in the output as it was; a call with a static base and an entry
\* whose variant is unknown is rewritten all the same, without a segment
\* for that variant.
C13_WarnedUntouched ==
    \A k \in Visited :
       LET n == Calls[k]
       IN  /\ WarningsAbout(n) # {} =>
                 /\ ~Edited(n)
                 /\ Returned => KeptOutsideEdits(n)
           /\ (HasMapping(n) /\ UnknownEntries(n) # {}) =>
                 /\ Edited(n)
                 /\ \A i \in UnknownEntries(n) :
                       SegmentAt(Replacement(n), KeyName(MembersOf(n)[i])) = {}

\* A returned invocation that warned about one call and rewrote another
\* that has an entry with an unknown variant.
C13_Witness ==
    /\ Returned
    /\ result.kind = "result"
    /\ \E k \in Visited : WarningsAbout(Calls[k]) # {} /\ ~Edited(Calls[k])
    /\ \E k \in Visited :
          /\ HasMapping(Calls[k])
          /\ UnknownEntries(Calls[k]) # {}
          /\ Edited(Calls[k])

(***************************************************************************)
(* C14.  A skipped call does not stop the traversal                        *)
(***************************************************************************)
\* A target call the visitor skips with a warning, and one it rewrites.
Skippable(n) == IsTarget(n) /\ (ArgCount(n) = 0 \/ ~IsStatic(n.kids[2]))

Rewritable(n) == IsTarget(n) /\ ArgCount(n) >= 1 /\ IsStatic(n.kids[2])

\* C14: when an invocation on a module with a call that is skipped with
\* a warning returns, every target call of the module with a static
\* base, before or after the skipped one, has been rewritten, and the
\* result is not null if there is such a call.
C14_TraversalGoesOn ==
    (Returned /\ \E k \in 1..Len(Calls) : Skippable(Calls[k])) =>
       /\ \A k \in 1..Len(Calls) : Skippable(Calls[k]) => WarningsAbout(Calls[k]) # {}
       /\ \A k \in 1..Len(Calls) : Rewritable(Calls[k]) => Edited(Calls[k])
       /\ (\E k \in 1..Len(Calls) : Rewritable(Calls[k])) => result.kind = "result"

\* A returned invocation on a module with a rewritten call before a
\* skipped one and a rewritten call after it.
C14_Witness ==
    /\ Returned
    /\ result.kind = "result"
    /\ \E i, j, k \in 1..Len(Calls) :
          /\ i < j /\ j < k
          /\ Edited(Calls[i])
          /\ Skippable(Calls[j]) /\ WarningsAbout(Calls[j]) # {}
          /\ Edited(Calls[k])

(***************************************************************************)
(* C15.  Console                                                           *)
(***************************************************************************)
\* What the handler itself writes when the debug flag is set.
HandlerTexts == {"[tw-classname] Processing", "[tw-classname] Successfully transformed"}

\* C15, as stated: transformCode and the functions it calls write nothing
\* to the console; whatever they report goes to context.error or
\* context.warn.
C15_NothingOnConsole ==
    \A i \in 1..Len(console) : console[i].text \in HandlerTexts

(***************************************************************************)
(* C16.  Target name                                                       *)
(***************************************************************************)
\* Names a host may configure as the target name.  transformCode has no
\* parameter for it and the plugin reads no such option: what an
\* invocation does is what it does under each of these configurations.
TargetNames == {<<"tw">>, <<"f">>}

CalleeIs(n, name) == n.kids[1].type = "Identifier" /\ n.kids[1].value = name

\* The visitor has rewritten the call or warned about it.
Treated(n) == Edited(n) \/ WarningsAbout(n) # {}

\* C16, as stated: whatever target name is configured, a call expression
\* is rewritten or warned about if and only if its callee is the bare
\* identifier of that name.
C16_FollowsTargetName ==
    \A name \in TargetNames :
       \A k \in Visited : Treated(Calls[k]) <=> CalleeIs(Calls[k], name)

(***************************************************************************)
(* C17.  The default breakpoints                                           *)
(***************************************************************************)
\* C17, as stated: with the default breakpoints, a call with a static
\* base whose object literal has an entry for one of them, its key
\* written plainly or in quotes, with a static value that is not blank,
\* is rewritten and the value's tokens appear behind "<breakpoint>:".
C17_DefaultsSupported ==
    breakpoints = DEFAULT_BREAKPOINTS =>
       \A k \in Visited :
          LET n == Calls[k]
          IN  HasMapping(n) =>
                 \A i \in 1..Len(MembersOf(n)) :
                    Composable(MembersOf(n)[i]) =>
                       /\ Edited(n)
                       /\ SegmentAt(Replacement(n), KeyName(MembersOf(n)[i])) # {}

(***************************************************************************)
(* C18.  Frame                                                             *)
(***************************************************************************)
\* C18: the code of a result is the source text with the spans of the
\* rewritten calls, each a whole call expression, replaced by their
\* replacements: the characters outside them are kept, in their order.
C18_Frame ==
    (Returned /\ result.kind = "result") =>
       /\ \A e \in s.edits :
             /\ \E k \in 1..Len(Calls) :
                   /\ Rewritable(Calls[k])
                   /\ Calls[k].start = e.start
                   /\ Calls[k].end = e.end
             /\ SubSeq(result.code, OutOffset(e.start) + 1,
                       OutOffset(e.start) + Len(e.content)) = e.content
             /\ OutOffset(e.end) = OutOffset(e.start) + Len(e.content)
       /\ \A offset \in 0..(Len(code) - 1) :
             ~InsideEdit(offset) => result.code[OutOffset(offset) + 1] = code[offset + 1]
       /\ Len(result.code) = OutOffset(Len(code))

\* A result with text kept before, between and after two rewritten calls.
C18_Witness ==
    /\ Returned
    /\ result.kind = "result"
    /\ \E a, b \in s.edits :
          /\ 0 < a.start
          /\ a.end < b.start
          /\ b.end < Len(code)
    /\ C18_Frame

(***************************************************************************)
(* C19.  Null or result                                                    *)
(***************************************************************************)
\* C19: transformCode returns null exactly when it has rewritten no call,
\* also when it has skipped every target call with a warning, and a
\* result with code and map exactly when it has rewritten one.
C19_NullIffNoEdit ==
    Returned =>
       /\ result.kind \in {"null", "result"}
       /\ result = NullResult <=> s.edits = {}
       /\ result = NullResult <=> \A k \in 1..Len(Calls) : ~Rewritable(Calls[k])
       /\ result.kind = "result" => result.map.file = id

\* A returned invocation that skipped every target call of the module
\* with a warning and returned null.
C19_Witness ==
    /\ Returned
    /\ Len(warns) > 1
    /\ \A k \in 1..Len(Calls) : Skippable(Calls[k])
    /\ result = NullResult

(***************************************************************************)
(* C20.  Invocations on different modules                                  *)
(***************************************************************************)
\* The host is back at the first module, and the invocation on it is over.
Again == host.stage = "again" /\ run = 3 /\ Over

RECURSIVE NodesOf(_)
NodesOf(n) == {n} \cup UNION {NodesOf(n.kids[i]) : i \in 1..Len(n.kids)}

NodesMet == IF ast.type = "File" THEN NodesOf(ast) \cup {NoNode} ELSE {}

\* The string a chunk of template text stands for: its escape sequences
\* replaced by the characters they denote.
RECURSIVE Unescaped(_)
Unescaped(raw) ==
    IF raw = <<>> THEN <<>>
    ELSE IF Head(raw) = BS /\ Len(raw) >= 2
         THEN Cooked(raw[2]) \o Unescaped(SubSeq(raw, 3, Len(raw)))
    ELSE <<Head(raw)>> \o Unescaped(Tail(raw))

\* A quoted string, or a template with no interpolation and one chunk.
PlainString(n) ==
    \/ n.type = "StringLiteral"
    \/ n.type = "TemplateLiteral" /\ Len(n.kids) = 0 /\ Len(n.quasis) = 1

\* The value of the string expression n.
StringValue(n) ==
    IF n.type = "StringLiteral" THEN n.value ELSE Unescaped(n.quasis[1])

\* C21: for a quoted string literal and for a template literal with no
\* interpolated expression and exactly one chunk, extractStringLiteral
\* returns the string value; for every other node (the absent node, a
\* template with an interpolation, an identifier, a call, a concatenation,
\* a spread) it returns null.
C21_StringValueOrNull ==
    \A n \in NodesMet :
       extractStringLiteral(n) = IF PlainString(n) THEN Str(StringValue(n)) ELSE Null

(***************************************************************************)
(* C22.  extractObjectExpression                                           *)
(***************************************************************************)
\* A member with a plain (identifier, not computed) key and a static
\* string for its value.
PlainEntry(m) == PlainKey(m) /\ PlainString(ValueNode(m))

ObjectsMet == {n \in NodesMet : n.type = "ObjectExpression"}

\* C22: extractObjectExpression keeps an entry if and only if its key is a
\* plain identifier that is not computed and its value is a static string;
\* spread elements, methods, computed keys, quoted keys and entries with
\* other values are dropped, without a diagnostic, and whether an entry is
\* kept does not depend on the entries dropped around it.
C22_KeptIffPlain ==
    /\ \A o \in ObjectsMet :
          LET kept == extractObjectExpression(o)
          IN  /\ \A i \in 1..Len(o.kids) :
                    PlainEntry(o.kids[i]) => HasKey(kept, KeyName(o.kids[i]))
              /\ \A j \in 1..Len(kept) :
                    \E i \in 1..Len(o.kids) :
                       /\ PlainEntry(o.kids[i])
                       /\ KeyName(o.kids[i]) = kept[j].key
    /\ \A k \in Visited : HasMapping(Calls[k]) => WarningsAbout(Calls[k]) = {}

(***************************************************************************)
(* C23.  Blank values and unknown variants in buildClassString             *)
(***************************************************************************)
\* The entries buildClassString is handed for a call with a static base
\* and an object literal.
EntriesOf(n) == extractObjectExpression(n.kids[3])

\* The unknown-breakpoint messages written about a variant.
UnknownMessages(variant) ==
    {i \in ConsoleWarnings : console[i].subject = variant}

NestedBase(n) ==
    /\ IsTarget(n)
    /\ ArgCount(n) >= 1
    /\ n.kids[2].type = "CallExpression"
    /\ Rewritable(n.kids[2])

\* The edits made within the range of a node.
EditsWithin(n) == {e \in s.edits : n.start <= e.start /\ e.end <= n.end}

\* C24: a target call whose first argument is a target call with a static
\* base gets exactly one INVALID_BASE_CLASSES warning and no edit, and
\* stays in place; once the invocation has returned, the inner call has
\* been rewritten on its own, and the one edit within the first argument
\* covers exactly the inner call's range.
C24_InnerRewritten ==
    \A k \in Visited :
       LET n == Calls[k]
           inner == n.kids[2]
       IN  NestedBase(n) =>
              /\ ~Edited(n)
              /\ OneWarning(n, "INVALID_BASE_CLASSES")
              /\ Returned =>
                    /\ ReplacedBy(inner, Quoted(DQ, Trimmed(Base(inner))))
                    /\ EditsWithin(inner) =
                          {[start |-> inner.start, end |-> inner.end,
                            content |-> Replacement(inner)]}
                    /\ KeptOutsideEdits(n)

\* A returned invocation on tw(tw("a"), { md: "b" }): one warning, one
\* edit in all, over the range of the inner call alone.
C24_Witness ==
    /\ Returned
    /\ Len(Calls) = 2
    /\ NestedBase(Calls[1])
    /\ ArgCount(Calls[1]) = 2
    /\ Calls[1].kids[3].type = "ObjectExpression"
    /\ OneWarning(Calls[1], "INVALID_BASE_CLASSES")
    /\ Cardinality(s.edits) = 1
    /\ \A e \in s.edits :
          /\ e.start = Calls[2].start /\ e.end = Calls[2].end
          /\ Calls[1].start < e.start /\ e.end < Calls[1].end
    /\ result.kind = "result"

(***************************************************************************)
(* C25.  Fatal and advisory diagnostics exclude each other                 *)
(***************************************************************************)
\* C25: in one invocation context.error is called at most once, and only
\* where parsing fails: when it has been called there is no tree, the
\* traversal has not begun, no warning has been reported to the host or
\* written to the console, and nothing has been overwritten; hence when a
\* warning has been reported or an edit made, it has not been called.
C25_FatalExcludesAdvisory ==
    /\ Len(errors) <= 1
    /\ errors # <<>> =>
          /\ errors[1].pluginCode = "PARSE_ERROR"
          /\ ~parse(code).ok
          /\ ast = NoNode /\ visit = 0
          /\ warns = <<>>
          /\ ConsoleWarnings = {}
          /\ s.edits = {} /\ ~hasTransforms
    /\ (warns # <<>> \/ s.edits # {}) => errors = <<>>

\* A finished invocation on a text that is not JavaScript: the error has
\* been reported once, no warning has, nothing has been overwritten and
\* null is returned.
C25_Witness ==
    /\ pc = "done"
    /\ Len(errors) = 1
    /\ warns = <<>>
    /\ s.edits = {}
    /\ result.kind = "null"

(***************************************************************************)
(* C26.  The replacement text as a string literal                          *)
(***************************************************************************)
\* The text is one double-quoted string literal and nothing else.
QuotedLiteral(text) ==
    LET p == ParseExpr(text, 1)
    IN  /\ Len(text) >= 2 /\ text[1] = DQ
        /\ p.ok
        /\ p.node.type = "StringLiteral"
        /\ p.pos = Len(text) + 1

\* The value of the string literal the text is.
LiteralValue(text) == ParseExpr(text, 1).node.value

\* The class string composed for a rewritten call: what is written
\* between the quotes.
ClassString(e) == SubSeq(e.content, 2, Len(e.content) - 1)

\* C26: the text written for a rewritten call is a single well-formed
\* double-quoted string literal, and the value of that literal is the
\* composed class string, whatever characters the static base and the
\* static variant values contain.
C26_WellFormedLiteral ==
    \A e \in s.edits :
       /\ QuotedLiteral(e.content)
       /\ LiteralValue(e.content) = ClassString(e)

(***************************************************************************)
(* C27.  No stray spaces in the composed string                            *)
(***************************************************************************)
\* The class string composed for a rewritten call.
ComposedFor(n) == SubSeq(Replacement(n), 2, Len(Replacement(n)) - 1)

\* C27: the string composed for a call with a static base neither starts
\* nor ends with a space, and past the base no two spaces stand next to
\* each other, also when the base is empty or blank and variants are
\* accepted.
C27_NoStraySpaces ==
    \A k \in Visited :
       LET n == Calls[k]
           text == IF Edited(n) THEN ComposedFor(n) ELSE <<>>
           past == IF Edited(n) THEN Len(Trimmed(Base(n))) ELSE 0
       IN  (Rewritable(n) /\ Edited(n) /\ text # <<>>) =>
              /\ text[1] # SP
              /\ text[Len(text)] # SP
              /\ \A i \in (past + 1)..(Len(text) - 1) :
                    ~(text[i] = SP /\ text[i + 1] = SP)

(***************************************************************************)
(* C28.  A variant declared more than once                                 *)
(***************************************************************************)
\* The value of the last entry that declares the variant of entry i.
DeclaredValue(members, i) ==
    LET last == CHOOSE j \in 1..Len(members) :
                    /\ Declares(members[j])
                    /\ KeyName(members[j]) = KeyName(members[i])
                    /\ \A l \in (j + 1)..Len(members) :
                          Declares(members[l]) =>
                             KeyName(members[l]) # KeyName(members[i])
    IN  StaticText(ValueNode(members[last]))

\* One segment per declared variant that is allowed and whose last value
\* is not blank, where the variant is first declared.
RECURSIVE DeclaredSegments(_, _)
DeclaredSegments(members, i) ==
    IF i > Len(members) THEN <<>>
    ELSE (IF /\ DeclaresFirst(members, i)
             /\ Allowed(KeyName(members[i]))
             /\ ~Blank(DeclaredValue(members, i))
          THEN <<Segment(KeyName(members[i]), DeclaredValue(members, i))>>
          ELSE <<>>) \o DeclaredSegments(members, i + 1)

\* Some variant is declared by two entries of the object literal.
DeclaredTwice(members) ==
    \E i, j \in 1..Len(members) :
       /\ i < j
       /\ Declares(members[i]) /\ Declares(members[j])
       /\ KeyName(members[i]) = KeyName(members[j])

\* C28: when the object literal of a rewritten call declares a variant
\* more than once, the composed string has one segment for that variant,
\* made of the value of the last declaration and standing, among the
\* segments of the other variants, where the variant is first declared.
C28_LastValueFirstPlace ==
    \A k \in Visited :
       LET n == Calls[k]
       IN  (HasMapping(n) /\ Edited(n) /\ DeclaredTwice(MembersOf(n))) =>
              /\ ReplacedBy(n, Composed(Base(n), DeclaredSegments(MembersOf(n), 1)))
              /\ \A i \in 1..Len(MembersOf(n)) :
                    (/\ DeclaresFirst(MembersOf(n), i)
                     /\ Allowed(KeyName(MembersOf(n)[i]))) =>
                       Cardinality(SegmentAt(Replacement(n), KeyName(MembersOf(n)[i])))
                          = Len(Tokens(DeclaredValue(MembersOf(n), i)))

\* A returned invocation that rewrote a call whose object literal declares
\* a variant, then another one, then the first again with another value:
\* the first variant's segment stands before the other's and carries the
\* later value.
C28_Witness ==
    /\ Returned
    /\ \E k \in Visited :
          LET n == Calls[k]
              members == IF HasMapping(n) THEN MembersOf(n) ELSE <<>>
          IN  /\ Edited(n)
              /\ Len(members) = 3
              /\ \A i \in 1..3 : Declares(members[i]) /\ Allowed(KeyName(members[i]))
              /\ KeyName(members[1]) = KeyName(members[3])
              /\ KeyName(members[1]) # KeyName(members[2])
              /\ StaticText(ValueNode(members[1])) # StaticText(ValueNode(members[3]))
              /\ Replacement(n) =
                    Composed(Base(n),
                             <<Segment(KeyName(members[1]), StaticText(ValueNode(members[3]))),
                               Segment(KeyName(members[2]), StaticText(ValueNode(members[2])))>>)

(***************************************************************************)
(* C29.  The debug flag                                                    *)
(***************************************************************************)
\* The module has gone through both instances: host.first is the outcome
\* under one value of debug, the state holds that under the other.
BothDone == host.stage = "again" /\ run = 2 /\ Over

\* C29: for the same code, id and breakpoints, the invocation under
\* debug = TRUE and the one under debug = FALSE end the same way, return
\* the same code or both null, and make the same context.error and
\* context.warn calls in the same order.
C29_DebugIrrelevant ==
    BothDone =>
       /\ code = host.first.code /\ id = host.first.id
       /\ breakpoints = host.idle
       /\ pc = host.first.pc
       /\ result.kind = host.first.result.kind
       /\ result.code = host.first.result.code
       /\ errors = host.first.errors
       /\ warns = host.first.warns

\* A module with a skipped and a rewritten call has gone through both
\* instances: both returned code and reported a warning, and only the
\* consoles differ.
C29_Witness ==
    /\ BothDone
    /\ pc = "done"
    /\ result.kind = "result"
    /\ host.first.result.kind = "result"
    /\ warns # <<>>
    /\ console # host.first.console

(***************************************************************************)
(* C30.  The handler and the user's filter                                 *)
(***************************************************************************)
\* The ids that the include and exclude patterns let through: script
\* files outside node_modules.
Included(moduleId) == moduleId \in {AppId, OtherId}

\* C30: for an id the filter rejects the handler returns null and
\* transformCode is not invoked: nothing is parsed, reported, written or
\* overwritten.  For any other id the handler returns what transformCode
\* returns for the handler's code and id and the configured breakpoints:
\* null when parsing fails or nothing was overwritten, else the edited
\* text of that code with its source map.
C30_FilterThenTransform ==
    /\ (run > 0 /\ ~Included(id)) =>
          /\ pc = "done"
          /\ result.kind = "null"
          /\ ast = NoNode /\ visit = 0
          /\ errors = <<>> /\ warns = <<>> /\ console = <<>>
          /\ s.edits = {}
    /\ (run > 0 /\ Included(id) /\ pc = "done") =>
          /\ breakpoints \in BreakpointLists
          /\ \A i \in 1..Len(warns) : warns[i].id = id
          /\ IF ~parse(code).ok
             THEN result.kind = "null" /\ Len(errors) = 1
             ELSE /\ ast = parse(code).node
                  /\ s.original = code
                  /\ IF s.edits = {}
                     THEN result.kind = "null"
                     ELSE /\ result.kind = "result"
                          /\ result.code = toString(s)
                          /\ result.map = generateMap(s, id)

\* The handler has returned null for a module of node_modules whose code
\* holds a call that would be rewritten.
C30_Witness ==
    /\ run > 0
    /\ ~Included(id)
    /\ pc = "done"
    /\ result.kind = "null"
    /\ parse(code).ok
    /\ \E k \in 1..Len(CallPaths(parse(code).node)) :
          Rewritable(CallPaths(parse(code).node)[k])

====
